---- MODULE Spec2Model ----
(***************************************************************************)
(* Adaptive Experiment Simulator (bandit-sim.js): the Track-and-Stop       *)
(* simulation driver, its allocation rule and its stopping rule.           *)
(*                                                                         *)
(* Numbers.  JavaScript numbers that are ratios of counts (mean estimates, *)
(* gaps, weights, allocations, random draws) are modelled as exact         *)
(* rationals <<n, d>> in lowest terms with d > 0; IEEE rounding of these   *)
(* is not modelled.  Logarithms (klBern, stoppingThreshold) are modelled   *)
(* in fixed point, in units of 1/LN_SCALE nat.                             *)
(*                                                                         *)
(* Scaling.  MAX_STEPS, CHART_SAMPLE and the two warm-up floors are the    *)
(* source's constants scaled down so that the reachable states can be      *)
(* enumerated; every formula refers to them by name.                       *)
(***************************************************************************)
EXTENDS Integers, Sequences, FiniteSets, TLC

\* ── Config ───────────────────────────────────────────────────────────────
\* DEFAULT_RATES in percent; the model keeps the first three of the source's
\* four variants (0.55, 0.45, 0.72, 0.48).
DEFAULT_RATES == <<55, 45, 72>>

\* Number of arms: arms = DEFAULT_RATES.map(...).
K == Len(DEFAULT_RATES)

\* Arm indices, 0-based as in the source.
ArmIdx == 0 .. (K - 1)

\* DELTA = 0.05, as a rational.
DELTA == <<1, 20>>

\* Hard cap on inferences (5000 in the source; scaled).
MAX_STEPS == 7

\* Record the allocation every CHART_SAMPLE steps (15 in the source; scaled).
CHART_SAMPLE == 3

\* computeAdaptiveAlloc's round-robin floor (6 in the source; scaled).
WARMUP_MIN == 1

\* shouldStop's minimum data per arm (12 in the source; scaled).
STOP_MIN == 2

\* Values of Math.random(), in percent of [0,1): selectArm's draw and pull's draw.
SelectDraws == {0, 20, 40, 60, 80, 99}

TrialDraws == {0, 50, 99}

\* Slider values setRate is called with (range input, min 5, max 95).
RateInputs == {95}

\* Arms whose slider is moved.
RateArms == {0}

\* Option values setSpeed is called with; "x" stands for any other value.
SpeedInputs == {"1", "3", "10", "50", "x"}

\* ── Rational arithmetic ──────────────────────────────────────────────────
RECURSIVE Gcd(_, _)
Gcd(a, b) == IF b = 0 THEN a ELSE Gcd(b, a % b)

Abs(x) == IF x < 0 THEN -x ELSE x

\* The rational n/d (d > 0) in lowest terms.
Rat(n, d) == LET g == Gcd(Abs(n), d) IN <<n \div g, d \div g>>

RAdd(p, q) == LET g == Gcd(p[2], q[2])
              IN  Rat(p[1] * (q[2] \div g) + q[1] * (p[2] \div g), (p[2] \div g) * q[2])

RSub(p, q) == RAdd(p, <<-q[1], q[2]>>)

RMul(p, q) == LET a == Rat(p[1], q[2])
                  b == Rat(q[1], p[2])
              IN  <<a[1] * b[1], a[2] * b[2]>>

\* p / q for q > 0.
RDiv(p, q) == RMul(p, <<q[2], q[1]>>)

\* Comparisons, over the least common denominator.
RLeq(p, q) == LET g == Gcd(p[2], q[2]) IN p[1] * (q[2] \div g) <= q[1] * (p[2] \div g)

RLt(p, q) == LET g == Gcd(p[2], q[2]) IN p[1] * (q[2] \div g) < q[1] * (p[2] \div g)

RMax(p, q) == IF RLt(p, q) THEN q ELSE p

RMin(p, q) == IF RLt(q, p) THEN q ELSE p

\* Sum of f[i] over the indices lo..hi, left to right (Array.reduce from 0).
RECURSIVE RSum(_, _, _)
RSum(f, lo, hi) == IF lo > hi THEN <<0, 1>> ELSE RAdd(RSum(f, lo, hi - 1), f[hi])

\* ── Logarithms in fixed point ────────────────────────────────────────────
\* One nat, in fixed-point units.
LN_SCALE == 100000

\* Math.log(2) in fixed-point units.
LN2 == 69315

\* Bits of mantissa kept by LnInt.
MANT_BITS == 13

RECURSIVE Pow2(_)
Pow2(k) == IF k = 0 THEN 1 ELSE 2 * Pow2(k - 1)

RECURSIVE Log2Floor(_)
Log2Floor(n) == IF n < 2 THEN 0 ELSE 1 + Log2Floor(n \div 2)

\* Math.log(n) for an integer n >= 1: n = 2^k * x with x in [1,2), and
\* ln x = 2 atanh((x-1)/(x+1)) by its series up to the 9th power.
LnSeries(n) ==
    LET k  == Log2Floor(n)
        m  == IF k <= MANT_BITS THEN n * Pow2(MANT_BITS - k) ELSE n \div Pow2(k - MANT_BITS)
        z  == ((m - Pow2(MANT_BITS)) * LN_SCALE) \div (m + Pow2(MANT_BITS))
        z2 == (z * z) \div LN_SCALE
        z3 == (z * z2) \div LN_SCALE
        z5 == (z3 * z2) \div LN_SCALE
        z7 == (z5 * z2) \div LN_SCALE
        z9 == (z7 * z2) \div LN_SCALE
    IN  k * LN2 + 2 * (z + z3 \div 3 + z5 \div 5 + z7 \div 7 + z9 \div 9)

\* Arguments whose logarithm is computed once and looked up afterwards.
LnCached == (1 .. 256) \cup {1000, LN_SCALE, 999999999, 1000000000}

LnTable == [n \in LnCached |-> LnSeries(n)]

\* Math.log(n) for an integer n >= 1.
LnInt(n) == IF n \in LnCached THEN LnTable[n] ELSE LnSeries(n)

\* Math.log of a positive rational.
LnR(p) == LnInt(p[1]) - LnInt(p[2])

\* ── Arm class ────────────────────────────────────────────────────────────
\* new Arm(idx)
NewArm(idx) == [trueRate |-> DEFAULT_RATES[idx + 1], pulls |-> 0, successes |-> 0]

\* get mean() with 0 as the estimate of an unpulled arm.
mean_zeroPrior(arm) == IF arm.pulls = 0 THEN <<0, 1>> ELSE Rat(arm.successes, arm.pulls)

\* get mean()
mean(arm) == IF arm.pulls = 0 THEN <<1, 2>> ELSE Rat(arm.successes, arm.pulls)

\* pull(), with r the value of Math.random() in percent.
pull(arm, r) == IF r < arm.trueRate
                THEN [arm EXCEPT !.pulls = @ + 1, !.successes = @ + 1]
                ELSE [arm EXCEPT !.pulls = @ + 1]

\* reset() that forgets the successes.
reset_keepSuccesses(arm) == [arm EXCEPT !.pulls = 0]

\* reset()
reset(arm) == [arm EXCEPT !.pulls = 0, !.successes = 0]

RECURSIVE SumPulls(_, _)
SumPulls(as, n) == IF n < 0 THEN 0 ELSE SumPulls(as, n - 1) + as[n].pulls

totalPullsOf(as) == SumPulls(as, K - 1)

\* The scan with >= in place of >: the last of the tied arms wins.
RECURSIVE bestScan_lastWins(_, _, _)
bestScan_lastWins(as, n, b) ==
    IF n = K THEN b
    ELSE bestScan_lastWins(as, n + 1, IF RLeq(mean(as[b]), mean(as[n])) THEN n ELSE b)

\* arms.reduce((b, a, i) => a.mean > arms[b].mean ? i : b, 0)
RECURSIVE bestScan(_, _, _)
bestScan(as, n, b) ==
    IF n = K THEN b
    ELSE bestScan(as, n + 1, IF RLt(mean(as[b]), mean(as[n])) THEN n ELSE b)

bestArmIdxOf(as) == bestScan(as, 0, 0)

\* Math.min(...arms.map(a => a.pulls))
RECURSIVE MinPullsFrom(_, _)
MinPullsFrom(as, n) ==
    IF n = 0 THEN as[0].pulls
    ELSE LET m == MinPullsFrom(as, n - 1) IN IF as[n].pulls < m THEN as[n].pulls ELSE m

minPullsOf(as) == MinPullsFrom(as, K - 1)

\* ── Algorithm: math ──────────────────────────────────────────────────────
\* 1e-9 and 1 - 1e-9.
EPS == <<1, 1000000000>>

ONE_MINUS_EPS == <<999999999, 1000000000>>

\* Math.max(1e-9, Math.min(1 - 1e-9, p)), for p in [0,1] with denominator < 10^9.
Clamp(p) == IF p[1] <= 0 THEN EPS ELSE IF p[1] >= p[2] THEN ONE_MINUS_EPS ELSE p

\* 1 - p
OneMinus(p) == <<p[2] - p[1], p[2]>>

\* p * x for a clamped probability p and a fixed-point x, rounded to the
\* fixed-point resolution (|x| * 1e-9 is below one unit).
MulFix(p, x) == IF p = EPS THEN 0 ELSE IF p = ONE_MINUS_EPS THEN x ELSE (p[1] * x) \div p[2]

\* KL divergence between two Bernoulli distributions, in fixed-point units.
klBern(p0, q0) ==
    LET p == Clamp(p0)
        q == Clamp(q0)
    IN  MulFix(p, LnR(p) - LnR(q))
        + MulFix(OneMinus(p), LnR(OneMinus(p)) - LnR(OneMinus(q)))

\* glrtStat without the test that arm_i is ahead.
glrtStat_noMeanTest(arm_i, arm_j) ==
    IF arm_i.pulls < 1 \/ arm_j.pulls < 1 THEN 0
    ELSE arm_i.pulls * klBern(mean(arm_i), mean(arm_j))
         + arm_j.pulls * klBern(mean(arm_j), mean(arm_i))

\* Generalized Likelihood Ratio Test statistic for arm_i vs arm_j.
glrtStat(arm_i, arm_j) ==
    IF arm_i.pulls < 1 \/ arm_j.pulls < 1 THEN 0
    ELSE IF RLeq(mean(arm_i), mean(arm_j)) THEN 0
    ELSE arm_i.pulls * klBern(mean(arm_i), mean(arm_j))
         + arm_j.pulls * klBern(mean(arm_j), mean(arm_i))

\* Math.E in thousandths.
E_MILLI == 2718

\* Math.log((Math.log(t + Math.E) + 1) / DELTA), in fixed-point units.
thresholdAt(t) ==
    LET l1 == LnInt(t * 1000 + E_MILLI) - LnInt(1000)
        x  == ((l1 + LN_SCALE) * DELTA[2]) \div DELTA[1]
    IN  LnInt(x) - LnInt(LN_SCALE)

\* The thresholds of the totals a run can reach, computed once.
ThresholdTable == [t \in 0 .. (MAX_STEPS + 1) |-> thresholdAt(t)]

\* A stopping threshold of 0.
stoppingThreshold_zero(t) == 0

\* Anytime-valid stopping threshold.
stoppingThreshold(t) == IF t \in DOMAIN ThresholdTable THEN ThresholdTable[t] ELSE thresholdAt(t)

\* ── Algorithm: allocation (Track-and-Stop) ───────────────────────────────
\* arms.map(() => 1 / arms.length)
uniformAlloc == [n \in ArmIdx |-> Rat(1, K)]

\* Floor of a gap (0.005) and of the best arm's weight (0.01).
GAP_FLOOR == <<1, 200>>

BEST_FLOOR == <<1, 100>>

\* The weight as 1 / gap, and as gap^2.
gapWeight_linear(bestMean, arm) ==
    RDiv(<<1, 1>>, RMax(RSub(bestMean, mean(arm)), GAP_FLOOR))

gapWeight_noInverse(bestMean, arm) ==
    LET gap == RMax(RSub(bestMean, mean(arm)), GAP_FLOOR)
    IN  RMul(gap, gap)

\* Weight of a non-best arm: 1 / gap^2 with gap = max(bestMean - arm.mean, 0.005).
gapWeight(bestMean, arm) ==
    LET gap == RMax(RSub(bestMean, mean(arm)), GAP_FLOOR)
    IN  RDiv(<<1, 1>>, RMul(gap, gap))

\* w.reduce((s, v, i) => i === best ? s : s + v, 0) over the indices 0..n
RECURSIVE sumOthersUpTo(_, _, _)
sumOthersUpTo(w, best, n) ==
    IF n < 0 THEN <<0, 1>>
    ELSE IF n = best THEN sumOthersUpTo(w, best, n - 1)
    ELSE RAdd(sumOthersUpTo(w, best, n - 1), w[n])

\* The best arm's weight left at its placeholder (null counts as 0).
bestWeight_zero(sumOthers) == <<0, 1>>

\* The best arm's weight: Math.max(sumOthers, 0.01).
bestWeight(sumOthers) == RMax(sumOthers, BEST_FLOOR)

\* The warm-up test taken on the total instead of the minimum.
inWarmup_total(as) == totalPullsOf(as) < WARMUP_MIN

\* Round-robin until each arm has enough data: minP < 6.
inWarmup(as) == minPullsOf(as) < WARMUP_MIN

computeAdaptiveAlloc(as) ==
    IF inWarmup(as) THEN uniformAlloc
    ELSE
      LET best     == bestArmIdxOf(as)
          bestMean == mean(as[best])
          w0       == [n \in ArmIdx |-> IF n = best THEN <<0, 1>> ELSE gapWeight(bestMean, as[n])]
          w        == [w0 EXCEPT ![best] = bestWeight(sumOthersUpTo(w0, best, K - 1))]
          total    == RSum(w, 0, K - 1)
      IN  [n \in ArmIdx |-> RDiv(w[n], total)]

\* The allocation simStep and renderAllocBars compute for a mode.
allocFor(mode, as) == IF mode = "adaptive" THEN computeAdaptiveAlloc(as) ELSE uniformAlloc

\* selectArm's loop with a strict test (r < cum).
RECURSIVE selectScan_strict(_, _, _, _)
selectScan_strict(alloc, r, n, cum) ==
    IF n = K THEN K - 1
    ELSE LET c == RAdd(cum, alloc[n])
         IN  IF RLt(r, c) THEN n ELSE selectScan_strict(alloc, r, n + 1, c)

\* selectArm's loop from index n with running sum cum; r = Math.random().
RECURSIVE selectScan(_, _, _, _)
selectScan(alloc, r, n, cum) ==
    IF n = K THEN K - 1
    ELSE LET c == RAdd(cum, alloc[n])
         IN  IF RLeq(r, c) THEN n ELSE selectScan(alloc, r, n + 1, c)

\* selectArm(alloc) with Math.random() = r percent.
selectArm(alloc, r) == selectScan(alloc, Rat(r, 100), 0, <<0, 1>>)

\* ── Algorithm: stopping criterion ────────────────────────────────────────
\* shouldStop's loop stopping one arm short.
RECURSIVE stopScan_skipLast(_, _, _, _)
stopScan_skipLast(as, best, thresh, n) ==
    IF n >= K - 1 THEN TRUE
    ELSE IF n = best THEN stopScan_skipLast(as, best, thresh, n + 1)
    ELSE IF glrtStat(as[best], as[n]) < thresh THEN FALSE
    ELSE stopScan_skipLast(as, best, thresh, n + 1)

\* shouldStop's loop from index n.
RECURSIVE stopScan(_, _, _, _)
stopScan(as, best, thresh, n) ==
    IF n = K THEN TRUE
    ELSE IF n = best THEN stopScan(as, best, thresh, n + 1)
    ELSE IF glrtStat(as[best], as[n]) < thresh THEN FALSE
    ELSE stopScan(as, best, thresh, n + 1)

\* shouldStop without the minimum-data test.
shouldStopOf_noFloor(as) ==
    stopScan(as, bestArmIdxOf(as), stoppingThreshold(totalPullsOf(as)), 0)

shouldStopOf(as) ==
    IF minPullsOf(as) < STOP_MIN THEN FALSE
    ELSE stopScan(as, bestArmIdxOf(as), stoppingThreshold(totalPullsOf(as)), 0)

\* ── State ────────────────────────────────────────────────────────────────
VARIABLES
    simMode,        \* 'adaptive' | 'uniform'
    simRunning,     \* boolean
    simTimer,       \* id returned by the last setInterval, 0 for null
    timers,         \* ids of the interval timers that are live in the browser
    stepsPerTick,
    arms,           \* [ArmIdx -> [trueRate, pulls, successes]]
    allocHistory,   \* sequence of [t, allocs]
    simDone,
    simWinner,      \* arm index, -1 for null
    pc,             \* "idle": between events; "batch": inside runBatch's loop
    i,              \* runBatch's loop counter
    lastReset,      \* history: driver state the last handler ran resetSim from, "none" if it did not
    probe,          \* selectArm applied on its own: its inputs and its result
    smMachines,     \* slot machine: [SmIdx -> [trueRate, pulls, wins, busy]]
    smCoins,
    smTotalPulls,
    spins           \* [SmIdx -> sequence of the tick counts of the live spin intervals]

\* The slot machine's variables.
smVars == <<smMachines, smCoins, smTotalPulls, spins>>

\* The simulator's variables.
simVars == <<simMode, simRunning, simTimer, timers, stepsPerTick, arms,
             allocHistory, simDone, simWinner, pc, i, lastReset, probe>>

vars == <<simMode, simRunning, simTimer, timers, stepsPerTick, arms,
          allocHistory, simDone, simWinner, pc, i, lastReset, probe,
          smMachines, smCoins, smTotalPulls, spins>>

\* ── Slot machine: config and state ───────────────────────────────────────
\* trueRate of SM_CONFIG's first machines, in percent.
SM_CONFIG == <<20, 55>>

SmIdx == 0 .. (Len(SM_CONFIG) - 1)

SM_WIN_COINS == 10

SM_PULL_COST == 3

\* 60 in the source.
SM_START == 6

\* Ticks of a spin interval before it resolves (14 in the source).
SPIN_TICKS == 2

\* Cap on the pull counters of the explored runs.
SM_MAX_PULLS == 3

\* SM_CONFIG.map((m, i) => ({ ...m, idx: i, pulls: 0, wins: 0, busy: false }))
NewMachine(idx) == [trueRate |-> SM_CONFIG[idx + 1], pulls |-> 0, wins |-> 0, busy |-> FALSE]

\* The slot machine as the script leaves it on load.
smInit ==
    /\ smMachines = [idx \in SmIdx |-> NewMachine(idx)]
    /\ smCoins = SM_START
    /\ smTotalPulls = 0
    /\ spins = [idx \in SmIdx |-> <<>>]

totalPulls == totalPullsOf(arms)

bestArmIdx == bestArmIdxOf(arms)

shouldStop == shouldStopOf(arms)

\* The driver state, read off the program's variables: renderSim's status
\* (Complete / Running / Paused), with a capped run (runBatch's cap test) and
\* an idle one (no pulls) told apart.
Phase ==
    IF simDone THEN "Stopped"
    ELSE IF totalPulls >= MAX_STEPS THEN "Capped"
    ELSE IF simRunning THEN "Running"
    ELSE IF totalPulls > 0 THEN "Paused"
    ELSE "Idle"

\* selectArm has not been applied on its own.
NoProbe == <<>>

\* ── Init: the DOMContentLoaded handler ───────────────────────────────────
Init ==
    /\ simMode = "adaptive"
    /\ simRunning = FALSE
    /\ simTimer = 0
    /\ timers = {}
    /\ stepsPerTick = 15
    /\ arms = [n \in ArmIdx |-> NewArm(n)]
    /\ allocHistory = <<>>
    /\ simDone = FALSE
    /\ simWinner = -1
    /\ pc = "idle"
    /\ i = 0
    /\ lastReset = "none"
    /\ probe = NoProbe
    /\ smInit

\* ── Simulation loop ──────────────────────────────────────────────────────
\* simStep() pulling every arm instead of the selected one.
simStepArms_pullAll(alloc, r1, r2) == [n \in ArmIdx |-> pull(arms[n], r2)]

\* The arms after simStep() draws r1 for the arm and r2 for the trial.
simStepArms(alloc, r1, r2) ==
    LET idx == selectArm(alloc, r1)
    IN  [arms EXCEPT ![idx] = pull(@, r2)]

\* The history sampled on the total before the pull.
simStepHistory_preTotal(alloc, as) ==
    IF totalPulls % CHART_SAMPLE = 0
    THEN Append(allocHistory, [t |-> totalPullsOf(as), allocs |-> alloc])
    ELSE allocHistory

\* The history after simStep() used alloc and left the arms as `as`.
simStepHistory(alloc, as) ==
    IF totalPullsOf(as) % CHART_SAMPLE = 0
    THEN Append(allocHistory, [t |-> totalPullsOf(as), allocs |-> alloc])
    ELSE allocHistory

\* The loop test without the cap, and without the done flag.
batchBreak_noCap == simDone

batchBreak_noDone == totalPulls >= MAX_STEPS

\* runBatch's loop test: if (simDone || totalPulls() >= MAX_STEPS) break;
batchBreak == simDone \/ totalPulls >= MAX_STEPS

\* setInterval fires: runBatch is entered.
RunBatchBegin ==
    /\ pc = "idle"
    /\ timers # {}
    /\ pc' = "batch"
    /\ i' = 0
    /\ lastReset' = "none"
    /\ UNCHANGED <<simMode, simRunning, simTimer, timers, stepsPerTick, arms,
                   allocHistory, simDone, simWinner>>
    /\ UNCHANGED probe
    /\ UNCHANGED smVars

\* One iteration of runBatch's loop: simStep().
SimStep ==
    /\ pc = "batch"
    /\ i < stepsPerTick
    /\ ~batchBreak
    /\ LET alloc == allocFor(simMode, arms)
       IN  \E as \in {simStepArms(alloc, r1, r2) : r1 \in SelectDraws, r2 \in TrialDraws} :
             /\ arms' = as
             /\ allocHistory' = simStepHistory(alloc, as)
             /\ IF shouldStopOf(as)
                THEN simDone' = TRUE /\ simWinner' = bestArmIdxOf(as)
                ELSE UNCHANGED <<simDone, simWinner>>
    /\ i' = i + 1
    /\ lastReset' = "none"
    /\ UNCHANGED <<simMode, simRunning, simTimer, timers, stepsPerTick, pc>>
    /\ UNCHANGED probe
    /\ UNCHANGED smVars

\* stopSim() without clearInterval.
stopSim_keepTimer ==
    /\ simRunning' = FALSE
    /\ UNCHANGED <<simTimer, timers>>

\* stopSim() / pauseSim(): the flag is cleared and the interval is cancelled.
stopSim ==
    /\ simRunning' = FALSE
    /\ timers' = timers \ {simTimer}
    /\ UNCHANGED simTimer

\* The test after the loop without the cap.
runFinished_noCap == simDone

\* runBatch's test after the loop: if (simDone || totalPulls() >= MAX_STEPS)
runFinished == simDone \/ totalPulls >= MAX_STEPS

\* The loop is left: renderSim(), and stopSim() + showWinner() on a finished run.
RunBatchEnd ==
    /\ pc = "batch"
    /\ (i >= stepsPerTick \/ batchBreak)
    /\ IF runFinished THEN stopSim ELSE UNCHANGED <<simRunning, simTimer, timers>>
    /\ pc' = "idle"
    /\ lastReset' = "none"
    /\ UNCHANGED <<simMode, stepsPerTick, arms, allocHistory, simDone, simWinner, i>>
    /\ UNCHANGED probe
    /\ UNCHANGED smVars

\* ── Controls ─────────────────────────────────────────────────────────────
\* setInterval's result: an id no live timer has.
NewTimerId == CHOOSE n \in 1 .. (Cardinality(timers) + 1) : n \notin timers

\* startSim() without setting the flag.
startSim_noFlag ==
    /\ UNCHANGED simRunning
    /\ simTimer' = NewTimerId
    /\ timers' = timers \cup {NewTimerId}

startSim ==
    /\ simRunning' = TRUE
    /\ simTimer' = NewTimerId
    /\ timers' = timers \cup {NewTimerId}

\* The arms after arms.forEach(a => a.reset()).
resetArms(as) == [n \in ArmIdx |-> reset(as[n])]

\* resetSim() leaving the winner in place.
resetSim_keepWinner ==
    /\ stopSim
    /\ arms' = resetArms(arms)
    /\ allocHistory' = <<>>
    /\ simDone' = FALSE
    /\ UNCHANGED simWinner
    /\ lastReset' = Phase

resetSim ==
    /\ stopSim
    /\ arms' = resetArms(arms)
    /\ allocHistory' = <<>>
    /\ simDone' = FALSE
    /\ simWinner' = -1
    /\ lastReset' = Phase

ResetSim ==
    /\ pc = "idle"
    /\ resetSim
    /\ UNCHANGED <<simMode, stepsPerTick, pc, i>>
    /\ UNCHANGED probe
    /\ UNCHANGED smVars

SetMode(m) ==
    /\ pc = "idle"
    /\ simMode' = m
    /\ resetSim
    /\ UNCHANGED <<stepsPerTick, pc, i>>
    /\ UNCHANGED probe
    /\ UNCHANGED smVars

\* { '1': 5, '3': 15, '10': 50, '50': 200 }[v] || 15
speedOf(v) ==
    IF v = "1" THEN 5 ELSE IF v = "3" THEN 15 ELSE IF v = "10" THEN 50
    ELSE IF v = "50" THEN 200 ELSE 15

SetSpeed(v) ==
    /\ pc = "idle"
    /\ stepsPerTick' = speedOf(v)
    /\ lastReset' = "none"
    /\ UNCHANGED <<simMode, simRunning, simTimer, timers, arms, allocHistory,
                   simDone, simWinner, pc, i>>
    /\ UNCHANGED probe
    /\ UNCHANGED smVars

\* arms[i].trueRate = v / 100, kept in percent.
SetRate(n, v) ==
    /\ pc = "idle"
    /\ arms' = [arms EXCEPT ![n].trueRate = v]
    /\ lastReset' = "none"
    /\ UNCHANGED <<simMode, simRunning, simTimer, timers, stepsPerTick, allocHistory,
                   simDone, simWinner, pc, i>>
    /\ UNCHANGED probe
    /\ UNCHANGED smVars

TogglePlay ==
    /\ pc = "idle"
    /\ IF simDone
       THEN resetSim
       ELSE /\ IF simRunning THEN stopSim ELSE startSim
            /\ lastReset' = "none"
            /\ UNCHANGED <<arms, allocHistory, simDone, simWinner>>
    /\ UNCHANGED <<simMode, stepsPerTick, pc, i>>
    /\ UNCHANGED probe
    /\ UNCHANGED smVars

Next ==
    \/ RunBatchBegin
    \/ SimStep
    \/ RunBatchEnd
    \/ ResetSim
    \/ \E m \in {"adaptive", "uniform"} : SetMode(m)
    \/ \E v \in SpeedInputs : SetSpeed(v)
    \/ \E n \in RateArms, v \in RateInputs : SetRate(n, v)
    \/ TogglePlay

Spec == Init /\ [][Next]_vars

\* ── A run left alone ─────────────────────────────────────────────────────
\* The page with either mode chosen before the first start.
InitLive ==
    /\ simMode \in {"adaptive", "uniform"}
    /\ simRunning = FALSE
    /\ simTimer = 0
    /\ timers = {}
    /\ stepsPerTick = 15
    /\ arms = [n \in ArmIdx |-> NewArm(n)]
    /\ allocHistory = <<>>
    /\ simDone = FALSE
    /\ simWinner = -1
    /\ pc = "idle"
    /\ i = 0
    /\ lastReset = "none"
    /\ probe = NoProbe
    /\ smInit

\* togglePlay() on a run that is neither running nor done: startSim().
TogglePlayStart == ~simDone /\ ~simRunning /\ TogglePlay

\* The user starts the run and moves the speed and rate controls, and never
\* pauses or resets.
NextLive ==
    \/ RunBatchBegin
    \/ SimStep
    \/ RunBatchEnd
    \/ \E v \in SpeedInputs : SetSpeed(v)
    \/ \E n \in RateArms, v \in RateInputs : SetRate(n, v)
    \/ TogglePlayStart

\* An iteration of runBatch's loop, told by the loop counter alone: it is
\* enabled exactly when SimStep is (the draw sets are never empty), and among
\* NextLive's steps those that advance i inside the loop are SimStep's.
LoopIteration ==
    /\ pc = "batch"
    /\ i < stepsPerTick
    /\ ~batchBreak
    /\ i' = i + 1
    /\ pc' = pc

\* setInterval keeps firing runBatch while the timer is live, and runBatch runs
\* to completion once entered.
SpecLive ==
    /\ InitLive
    /\ [][NextLive]_vars
    /\ WF_vars(RunBatchBegin)
    /\ WF_<<pc, i>>(LoopIteration)
    /\ WF_vars(RunBatchEnd)

\* ── selectArm on its own ─────────────────────────────────────────────────
\* The shares an allocation handed to selectArm is made of.
AllocShares == {<<1, 10>>, <<1, 5>>, <<1, 3>>, <<1, 2>>}

\* The allocations handed to selectArm: K positive shares that sum to 1, or to
\* less than 1 as a sum of doubles can fall short of the draw.
AllocInputs == {a \in [ArmIdx -> AllocShares] : RLeq(RSum(a, 0, K - 1), <<1, 1>>)}

\* The page as loaded, with an allocation and a draw for selectArm.
InitSelect ==
    /\ simMode = "adaptive"
    /\ simRunning = FALSE
    /\ simTimer = 0
    /\ timers = {}
    /\ stepsPerTick = 15
    /\ arms = [n \in ArmIdx |-> NewArm(n)]
    /\ allocHistory = <<>>
    /\ simDone = FALSE
    /\ simWinner = -1
    /\ pc = "idle"
    /\ i = 0
    /\ lastReset = "none"
    /\ probe \in {[alloc |-> a, r |-> r, idx |-> -1] : a \in AllocInputs, r \in SelectDraws}
    /\ smInit

\* selectArm(alloc) is called and draws probe.r.
SelectArm ==
    /\ probe.idx = -1
    /\ probe' = [probe EXCEPT !.idx = selectArm(probe.alloc, probe.r)]
    /\ UNCHANGED <<simMode, simRunning, simTimer, timers, stepsPerTick, arms,
                   allocHistory, simDone, simWinner, pc, i, lastReset>>
    /\ UNCHANGED smVars

NextSelect == SelectArm

SpecSelect == InitSelect /\ [][NextSelect]_vars

\* ── Slot machine ─────────────────────────────────────────────────────────
\* smPull(idx): ignored on a busy machine or without coins; else the machine
\* turns busy, the cost is paid and a spin interval starts at tick 0.
SmPull(idx) ==
    /\ smTotalPulls < SM_MAX_PULLS
    /\ smMachines[idx].pulls + Len(spins[idx]) < SM_MAX_PULLS
    /\ IF smMachines[idx].busy \/ smCoins < SM_PULL_COST
       THEN UNCHANGED smVars
       ELSE /\ smMachines' = [smMachines EXCEPT ![idx].busy = TRUE]
            /\ smCoins' = smCoins - SM_PULL_COST
            /\ smTotalPulls' = smTotalPulls + 1
            /\ spins' = [spins EXCEPT ![idx] = Append(@, 0)]
    /\ UNCHANGED simVars

\* smResolve(idx, reels) with Math.random() = r percent.
smResolve(idx, r) ==
    LET win == r < smMachines[idx].trueRate
    IN  /\ smMachines' = [smMachines EXCEPT ![idx] =
                             [@ EXCEPT !.pulls = @ + 1,
                                       !.wins = IF win THEN @ + 1 ELSE @,
                                       !.busy = FALSE]]
        /\ smCoins' = IF win THEN smCoins + SM_WIN_COINS ELSE smCoins
        /\ UNCHANGED smTotalPulls

\* The sequence q without its k-th element.
RemoveAt(q, k) == [j \in 1 .. (Len(q) - 1) |-> IF j < k THEN q[j] ELSE q[j + 1]]

\* The k-th spin interval of machine idx fires: on its last tick it is cleared
\* and smResolve runs; before that only the reels change.
SpinTick(idx, k, r) ==
    /\ k \in 1 .. Len(spins[idx])
    /\ IF spins[idx][k] + 1 >= SPIN_TICKS
       THEN /\ spins' = [spins EXCEPT ![idx] = RemoveAt(@, k)]
            /\ smResolve(idx, r)
       ELSE /\ spins' = [spins EXCEPT ![idx][k] = @ + 1]
            /\ UNCHANGED <<smMachines, smCoins, smTotalPulls>>
    /\ UNCHANGED simVars

\* smReset(): counters and busy flags are cleared; no interval is.
SmReset ==
    /\ smMachines' = [idx \in SmIdx |->
                         [smMachines[idx] EXCEPT !.pulls = 0, !.wins = 0, !.busy = FALSE]]
    /\ smCoins' = SM_START
    /\ smTotalPulls' = 0
    /\ UNCHANGED spins
    /\ UNCHANGED simVars

NextSlot ==
    \/ \E idx \in SmIdx : SmPull(idx)
    \/ \E idx \in SmIdx, k \in 1 .. SM_MAX_PULLS, r \in TrialDraws : SpinTick(idx, k, r)
    \/ SmReset

SpecSlot == Init /\ [][NextSlot]_vars

\* ── Properties ───────────────────────────────────────────────────────────
minPulls == minPullsOf(arms)

\* The run is in a terminal state: the stopping rule has fired or the cap is hit.
Terminal == simDone \/ totalPulls >= MAX_STEPS

\* No arm's counts differ between the two states of a step.
CountsUnchanged ==
    \A n \in ArmIdx : arms'[n].pulls = arms[n].pulls /\ arms'[n].successes = arms[n].successes

\* C1: in every reachable state every arm satisfies 0 <= successes <= pulls.
Thm_C1 == \A n \in ArmIdx : 0 <= arms[n].successes /\ arms[n].successes <= arms[n].pulls

\* A run after a rate change and a reset, with an arm that has both won and lost.
Wit_C1 ==
    /\ arms[0].trueRate # DEFAULT_RATES[1]
    /\ simTimer # 0
    /\ \E n \in ArmIdx : 0 < arms[n].successes /\ arms[n].successes < arms[n].pulls

\* C2 (a step inside runBatch's loop that advances its counter is a simStep):
\* each simStep changes exactly one arm: its pulls grow by 1 and its
\* successes by 0 or 1, every other arm keeps its counts, and totalPulls
\* grows by exactly 1.
Thm_C2 ==
    [][(pc = "batch" /\ i' = i + 1) =>
         /\ \E idx \in ArmIdx :
              /\ arms'[idx].pulls = arms[idx].pulls + 1
              /\ arms'[idx].successes - arms[idx].successes \in {0, 1}
              /\ \A n \in ArmIdx \ {idx} : arms'[n] = arms[n]
         /\ totalPulls' = totalPulls + 1]_vars

\* Inside a batch after two steps that pulled different arms.
Wit_C2 ==
    /\ pc = "batch"
    /\ i >= 2
    /\ Cardinality({n \in ArmIdx : arms[n].pulls > 0}) >= 2

\* C3: shouldStop is false whenever some arm has fewer than STOP_MIN pulls,
\* and whenever the run is marked done every arm has at least STOP_MIN pulls.
Thm_C3 ==
    /\ minPulls < STOP_MIN => ~shouldStop
    /\ simDone => minPulls >= STOP_MIN

\* The stopping rule has fired with an arm exactly at the floor.
Wit_C3 == simDone /\ minPulls = STOP_MIN

\* C4: when every arm has at least STOP_MIN pulls, shouldStop is true exactly
\* when every challenger's statistic against the best arm is at or above
\* the threshold at totalPulls (so it is false as soon as one is below).
Thm_C4 ==
    minPulls >= STOP_MIN =>
        (shouldStop <=>
            \A n \in ArmIdx \ {bestArmIdx} :
                glrtStat(arms[bestArmIdx], arms[n]) >= stoppingThreshold(totalPulls))

\* Past the floor, the last challenger is below the threshold while another
\* challenger is at or above it: shouldStop is false.
Wit_C4 ==
    /\ minPulls >= STOP_MIN
    /\ ~shouldStop
    /\ bestArmIdx # K - 1
    /\ glrtStat(arms[bestArmIdx], arms[K - 1]) < stoppingThreshold(totalPulls)
    /\ \E n \in ArmIdx \ {bestArmIdx} :
         glrtStat(arms[bestArmIdx], arms[n]) >= stoppingThreshold(totalPulls)

\* C5: totalPulls never exceeds MAX_STEPS, whatever stepsPerTick is.
Thm_C5 == totalPulls <= MAX_STEPS

\* The loop of a batch that could have gone on is cut by the cap.
Wit_C5 ==
    /\ pc = "batch"
    /\ ~simDone
    /\ totalPulls = MAX_STEPS
    /\ 0 < i /\ i < stepsPerTick

\* C6: from a terminal state, a step that does not run resetSim leaves every
\* arm's counts, the allocation history and the recorded winner unchanged.
Thm_C6 ==
    [][(Terminal /\ lastReset' = "none") =>
         /\ CountsUnchanged
         /\ allocHistory' = allocHistory
         /\ simWinner' = simWinner]_vars

\* A timer tick has entered runBatch on a run that was already at the cap.
Wit_C6 ==
    /\ pc = "batch"
    /\ i = 0
    /\ ~simDone
    /\ totalPulls = MAX_STEPS

\* C7 (as claimed): from a terminal state the driver does not become Running
\* again unless resetSim is executed first.
Cex_C7 == [][(Terminal /\ ~simRunning) => ~simRunning']_vars

\* What resetSim leaves: zeroed arms, empty history, no outcome, driver stopped.
PostReset ==
    /\ \A n \in ArmIdx : arms[n].pulls = 0 /\ arms[n].successes = 0
    /\ allocHistory = <<>>
    /\ simDone = FALSE
    /\ simWinner = -1
    /\ simRunning = FALSE
    /\ timers = {}

\* C8: every step that runs resetSim ends in the reset state, and resetSim
\* run again from there (or from Idle) changes nothing.
Thm_C8 ==
    [][/\ lastReset' # "none" => PostReset'
       /\ (lastReset' # "none" /\ (lastReset # "none" \/ Phase = "Idle")) =>
              UNCHANGED <<simRunning, simTimer, timers, stepsPerTick, arms,
                          allocHistory, simDone, simWinner, pc, i>>]_vars

\* resetSim has just run on a run the stopping rule had ended.
Wit_C8 == lastReset = "Stopped" /\ PostReset

\* The entries of an allocation are strictly positive and sum to 1.
IsDistribution(alloc) ==
    /\ DOMAIN alloc = ArmIdx
    /\ \A n \in ArmIdx : alloc[n][1] > 0 /\ alloc[n][2] > 0
    /\ RSum(alloc, 0, K - 1) = <<1, 1>>

\* C9: for every reachable arm state and in both modes the allocation has
\* K entries, each strictly positive, summing to 1.
Thm_C9 == \A m \in {"adaptive", "uniform"} : IsDistribution(allocFor(m, arms))

\* A step has been taken with an adaptive allocation that is not uniform.
Wit_C9 ==
    /\ simMode = "adaptive"
    /\ pc = "batch"
    /\ i > 0
    /\ ~inWarmup(arms)
    /\ allocFor(simMode, arms) # uniformAlloc

\* C10: while the minimum pull count is below WARMUP_MIN, computeAdaptiveAlloc
\* returns 1/K for every arm.
Thm_C10 == minPulls < WARMUP_MIN => computeAdaptiveAlloc(arms) = uniformAlloc

\* Adaptive mode in warm-up, with arms whose estimates already differ.
Wit_C10 ==
    /\ simMode = "adaptive"
    /\ minPulls < WARMUP_MIN
    /\ totalPulls >= 2
    /\ \E n, m \in ArmIdx : arms[n].pulls > 0 /\ arms[m].pulls > 0
                             /\ mean(arms[n]) # mean(arms[m])

\* The arms whose mean estimate is maximal.
MaxMeanArms == {n \in ArmIdx : \A m \in ArmIdx : RLeq(mean(arms[m]), mean(arms[n]))}

\* The least element of a non-empty set of indices.
MinOf(S) == CHOOSE n \in S : \A m \in S : n <= m

\* C11: bestArmIdx is the lowest index among the arms whose mean estimate is
\* maximal (an unpulled arm counts as 1/2); it is 0 when all means are equal.
Thm_C11 ==
    /\ bestArmIdx = MinOf(MaxMeanArms)
    /\ (\A n, m \in ArmIdx : mean(arms[n]) = mean(arms[m])) => bestArmIdx = 0

\* Two pulled arms tie for the maximum and arm 0 is behind them.
Wit_C11 ==
    /\ Cardinality(MaxMeanArms) >= 2
    /\ 0 \notin MaxMeanArms
    /\ \A n \in MaxMeanArms : arms[n].pulls > 0

\* The gap of arm n to the best arm, floored at 0.005, and its weight 1/gap^2.
GapOf(n) == RMax(RSub(mean(arms[bestArmIdx]), mean(arms[n])), GAP_FLOOR)

InvSq(g) == <<g[2] * g[2], g[1] * g[1]>>

Challengers == ArmIdx \ {bestArmIdx}

\* C12: after warm-up the non-best arms are allocated in proportion to
\* 1/gap^2, and the best arm's allocation equals the sum of the others'.
Thm_C12 ==
    ~inWarmup(arms) =>
        LET alloc == computeAdaptiveAlloc(arms)
            wsum  == sumOthersUpTo([n \in ArmIdx |-> InvSq(GapOf(n))], bestArmIdx, K - 1)
        IN  /\ \A n \in Challengers : RMul(alloc[n], RMul(<<2, 1>>, wsum)) = InvSq(GapOf(n))
            /\ alloc[bestArmIdx] = sumOthersUpTo(alloc, bestArmIdx, K - 1)

\* After warm-up, with challengers at different gaps, one of them floored.
Wit_C12 ==
    /\ simMode = "adaptive"
    /\ ~inWarmup(arms)
    /\ \E n, m \in Challengers : GapOf(n) = GAP_FLOOR /\ GapOf(m) # GAP_FLOOR

\* C13: glrtStat(a, b) is 0 whenever a's mean is at most b's or either arm
\* has no pulls.
Thm_C13 ==
    \A a, b \in ArmIdx :
        (RLeq(mean(arms[a]), mean(arms[b])) \/ arms[a].pulls = 0 \/ arms[b].pulls = 0)
            => glrtStat(arms[a], arms[b]) = 0

\* Two pulled arms with different means: the statistic is positive one way round.
Wit_C13 ==
    \E a, b \in ArmIdx :
        /\ arms[a].pulls > 0 /\ arms[b].pulls > 0
        /\ RLt(mean(arms[a]), mean(arms[b]))
        /\ glrtStat(arms[b], arms[a]) > 0

InUnit(p) == RLeq(<<0, 1>>, p) /\ RLeq(p, <<1, 1>>)

\* C14 (as claimed): the mean estimate lies in [0,1] and is 1/2 if and only if
\* pulls = 0.
Cex_C14 ==
    \A n \in ArmIdx :
        /\ InUnit(mean(arms[n]))
        /\ mean(arms[n]) = <<1, 2>> <=> arms[n].pulls = 0

\* C14 (amended): the mean estimate lies in [0,1] and is 1/2 whenever pulls = 0.
Thm_C14 ==
    \A n \in ArmIdx :
        /\ InUnit(mean(arms[n]))
        /\ arms[n].pulls = 0 => mean(arms[n]) = <<1, 2>>

\* An unpulled arm beside arms whose estimates are 0 and 1.
Wit_C14 ==
    /\ \E n \in ArmIdx : arms[n].pulls = 0
    /\ \E n \in ArmIdx : arms[n].pulls > 0 /\ arms[n].successes = 0
    /\ \E n \in ArmIdx : arms[n].pulls > 0 /\ arms[n].successes = arms[n].pulls

\* C15 (as claimed): no step changes an arm's trueRate while the arms hold
\* pulls of a run in progress.
Cex_C15 ==
    [][totalPulls > 0 => \A n \in ArmIdx : arms'[n].trueRate = arms[n].trueRate]_vars

\* The history holds one entry per multiple of CHART_SAMPLE up to totalPulls.
HistoryShape ==
    /\ Len(allocHistory) = totalPulls \div CHART_SAMPLE
    /\ \A k \in 1 .. Len(allocHistory) : allocHistory[k].t = k * CHART_SAMPLE

\* The history before a step is a prefix of the history after it.
HistoryExtended ==
    /\ Len(allocHistory) <= Len(allocHistory')
    /\ \A k \in 1 .. Len(allocHistory) : allocHistory'[k] = allocHistory[k]

\* C16: the history has exactly one entry for each multiple of CHART_SAMPLE in
\* 1..totalPulls, in increasing order of t, and a step that does not run
\* resetSim only appends to it.
Thm_C16 == []HistoryShape /\ [][lastReset' = "none" => HistoryExtended]_vars

\* Two entries recorded, the second with an allocation unlike the first.
Wit_C16 ==
    /\ Len(allocHistory) >= 2
    /\ allocHistory[1].allocs # allocHistory[2].allocs

\* C17: in a run that is started and never paused or reset, with ticks that
\* keep firing, the run reaches a terminal state (done or capped) with the
\* flag cleared and no interval timer live, for every speed setting and every
\* sequence of draws.
Thm_C17 == simRunning ~> (Terminal /\ ~simRunning /\ timers = {})

\* A run that hit the cap undecided at a speed other than the default, stopped.
Wit_C17 ==
    /\ ~simDone
    /\ totalPulls = MAX_STEPS
    /\ stepsPerTick # 15
    /\ pc = "idle"
    /\ ~simRunning /\ timers = {} /\ simTimer # 0

\* The indices whose cumulative allocation reaches the draw of the probe.
Reached == {n \in ArmIdx : RLeq(Rat(probe.r, 100), RSum(probe.alloc, 0, n))}

\* C18: selectArm returns the first index whose cumulative allocation is >= the
\* draw, the last index when no cumulative sum reaches the draw, and in every
\* case an index in 0 .. K-1.
Thm_C18 ==
    probe.idx # -1 =>
        /\ probe.idx \in ArmIdx
        /\ probe.idx = IF Reached = {} THEN K - 1 ELSE MinOf(Reached)

\* selectArm has returned on an allocation whose sum falls short of the draw.
Wit_C18 == probe.idx # -1 /\ Reached = {} /\ probe.r < 100

\* C19: after warm-up, of two non-best arms the one with the higher (or
\* equal) mean estimate gets at least as much allocation.
Thm_C19 ==
    ~inWarmup(arms) =>
        LET alloc == computeAdaptiveAlloc(arms)
        IN  \A n, m \in Challengers :
              RLeq(mean(arms[m]), mean(arms[n])) => RLeq(alloc[m], alloc[n])

\* After warm-up, two challengers with different means and different shares.
Wit_C19 ==
    /\ simMode = "adaptive"
    /\ ~inWarmup(arms)
    /\ \E n, m \in Challengers :
         /\ RLt(mean(arms[m]), mean(arms[n]))
         /\ RLt(computeAdaptiveAlloc(arms)[m], computeAdaptiveAlloc(arms)[n])

WinnerCaptured ==
    /\ simWinner # -1 <=> simDone
    /\ simDone => simWinner = bestArmIdx

\* C21: in every reachable state simWinner is non-null iff simDone, a done
\* run's simWinner is the current bestArmIdx(), and a step that does not run
\* resetSim leaves a captured winner as it is.
Thm_C21 ==
    /\ []WinnerCaptured
    /\ [][(lastReset' = "none" /\ simWinner # -1) => simWinner' = simWinner]_vars

\* A stopped run whose winner is the last arm, back between events.
Wit_C21 == simDone /\ simWinner = K - 1 /\ pc = "idle" /\ timers = {}

\* The arms other than the captured winner.
Losers == ArmIdx \ {simWinner}

\* C22: in every state with simDone true the winner's mean estimate is
\* strictly greater than every other arm's mean estimate.
Thm_C22 == simDone => \A n \in Losers : RLt(mean(arms[n]), mean(arms[simWinner]))

\* A stopped run in which a losing arm has successes and two losing arms tie.
Wit_C22 ==
    /\ simDone
    /\ \E n, m \in Losers :
         /\ n # m
         /\ arms[n].successes > 0
         /\ mean(arms[n]) = mean(arms[m])

\* Sum of f[idx] over the machines 0..n.
RECURSIVE SmSum(_, _)
SmSum(f, n) == IF n < 0 THEN 0 ELSE SmSum(f, n - 1) + f[n]

\* C23: under any interleaving of smPull, spin completions and smReset, at
\* most one spin is in flight per machine.
Cex_C23 == \A idx \in SmIdx : Len(spins[idx]) <= 1

\* C24: smTotalPulls equals the sum of the machines' resolved pulls plus the
\* number of spins in flight.
Cex_C24 ==
    smTotalPulls = SmSum([idx \in SmIdx |-> smMachines[idx].pulls], Len(SM_CONFIG) - 1)
                   + SmSum([idx \in SmIdx |-> Len(spins[idx])], Len(SM_CONFIG) - 1)

====
